---- MODULE Spec2Model ----
(***************************************************************************)
(* A model of the quiz-generation pipeline: the Flask request handlers of  *)
(* app.py, the orchestrator run_pipeline.main, and the question            *)
(* synthesizers of question_generation.py.                                 *)
(*                                                                         *)
(* Python strings are modelled as sequences of one-character strings, so   *)
(* that strip, split, lower, replace and the substring test are computed   *)
(* character by character as the interpreter computes them.                *)
(***************************************************************************)
EXTENDS Integers, Sequences, FiniteSets, TLC

----------------------------------------------------------------------------
(* Characters and Python string primitives                                 *)

LowerLetters ==
  <<"a","b","c","d","e","f","g","h","i","j","k","l","m",
    "n","o","p","q","r","s","t","u","v","w","x","y","z">>

UpperLetters ==
  <<"A","B","C","D","E","F","G","H","I","J","K","L","M",
    "N","O","P","Q","R","S","T","U","V","W","X","Y","Z">>

Digits == {"0","1","2","3","4","5","6","7","8","9"}

UpperSet == {UpperLetters[i] : i \in DOMAIN UpperLetters}

LowerSet == {LowerLetters[i] : i \in DOMAIN LowerLetters}

IsUpper(c) == c \in UpperSet

IsLetter(c) == c \in UpperSet \/ c \in LowerSet

IsDigit(c) == c \in Digits

\* \s of the re module and the whitespace of str.strip / str.split
IsSpace(c) == c \in {" ", "\n", "\t"}

\* \w of the re module
IsWordChar(c) == IsLetter(c) \/ IsDigit(c) \/ c = "_"

\* the lower-case letter of each upper-case one
LowerOf ==
  [c \in UpperSet |->
     LowerLetters[CHOOSE i \in DOMAIN UpperLetters : UpperLetters[i] = c]]

LowerChar(c) == IF IsUpper(c) THEN LowerOf[c] ELSE c

\* str.lower()
Lower(s) == [i \in DOMAIN s |-> LowerChar(s[i])]

\* s[i:] with a 1-based i
Drop(s, i) == SubSeq(s, i, Len(s))

\* s[:n]
Take(s, n) == SubSeq(s, 1, n)

RECURSIVE LStripSet(_, _)
LStripSet(s, cs) ==
  IF s # <<>> /\ s[1] \in cs THEN LStripSet(Tail(s), cs) ELSE s

RECURSIVE RStripSet(_, _)
RStripSet(s, cs) ==
  IF s # <<>> /\ s[Len(s)] \in cs THEN RStripSet(Take(s, Len(s) - 1), cs) ELSE s

\* str.strip(chars)
StripSet(s, cs) == RStripSet(LStripSet(s, cs), cs)

\* str.strip()
Strip(s) == StripSet(s, {" ", "\n", "\t"})

\* s.startswith(p, i-1): p occurs in s at the 1-based position i
OccursAt(s, p, i) ==
  /\ i >= 1
  /\ i + Len(p) - 1 <= Len(s)
  /\ \A k \in 1..Len(p) : s[i + k - 1] = p[k]

\* p in s
Contains(s, p) == \E i \in 1..(Len(s) - Len(p) + 1) : OccursAt(s, p, i)

\* str.replace(old, new, 1): the first occurrence only
RECURSIVE ReplaceFirstOnly(_, _, _)
ReplaceFirstOnly(s, old, new) ==
  IF s = <<>> \/ old = <<>> THEN s
  ELSE IF OccursAt(s, old, 1)
    THEN new \o Drop(s, Len(old) + 1)
    ELSE <<s[1]>> \o ReplaceFirstOnly(Tail(s), old, new)

\* str.replace(old, new): every non-overlapping occurrence, left to right
RECURSIVE Replace(_, _, _)
Replace(s, old, new) ==
  IF s = <<>> \/ old = <<>> THEN s
  ELSE IF OccursAt(s, old, 1)
    THEN new \o Replace(Drop(s, Len(old) + 1), old, new)
    ELSE <<s[1]>> \o Replace(Tail(s), old, new)

\* str.split(): the maximal runs of non-whitespace characters
RECURSIVE SplitFrom(_, _)
SplitFrom(s, cur) ==
  IF s = <<>> THEN (IF cur = <<>> THEN <<>> ELSE <<cur>>)
  ELSE IF IsSpace(s[1])
    THEN (IF cur = <<>> THEN <<>> ELSE <<cur>>) \o SplitFrom(Tail(s), <<>>)
    ELSE SplitFrom(Tail(s), Append(cur, s[1]))

Split(s) == SplitFrom(s, <<>>)

\* " ".join(tokens)
RECURSIVE JoinSp(_)
JoinSp(toks) ==
  IF toks = <<>> THEN <<>>
  ELSE IF Len(toks) = 1 THEN toks[1]
  ELSE toks[1] \o <<" ">> \o JoinSp(Tail(toks))

\* re.sub(r'\s+', ' ', s): every run of whitespace becomes one space
RECURSIVE CollapseSpaces(_)
CollapseSpaces(s) ==
  IF s = <<>> THEN <<>>
  ELSE IF IsSpace(s[1])
    THEN <<" ">> \o CollapseSpaces(LStripSet(s, {" ", "\n", "\t"}))
    ELSE <<s[1]>> \o CollapseSpaces(Tail(s))

----------------------------------------------------------------------------
(* question_generation.py: the four synthesizers                           *)
(*                                                                         *)
(* nltk's pos_tag and Python's random module are outside the repository:   *)
(* which tokens are tagged NN* or VB*, which one random.choice returns and *)
(* the order random.shuffle leaves are nondeterministic choices, so each   *)
(* synthesizer is the SET of record lists it can return.                   *)

\* normalize_sentence
NormalizeSentence(s) == Strip(CollapseSpaces(s))

\* One whitespace-free chunk cut into runs of word characters and single
\* punctuation characters.
RECURSIVE TokenizeChunk(_, _)
TokenizeChunk(s, cur) ==
  IF s = <<>> THEN (IF cur = <<>> THEN <<>> ELSE <<cur>>)
  ELSE IF IsWordChar(s[1])
    THEN TokenizeChunk(Tail(s), Append(cur, s[1]))
    ELSE (IF cur = <<>> THEN <<>> ELSE <<cur>>)
         \o <<(<<s[1]>>)>> \o TokenizeChunk(Tail(s), <<>>)

RECURSIVE TokenizeChunks(_)
TokenizeChunks(chunks) ==
  IF chunks = <<>> THEN <<>>
  ELSE TokenizeChunk(chunks[1], <<>>) \o TokenizeChunks(Tail(chunks))

\* nltk.word_tokenize: words, with punctuation split off as tokens of its own
WordTokenize(s) == TokenizeChunks(Split(s))

\* The positions pos_tag may tag NN* or VB*: the tokens that hold a word
\* character (punctuation is tagged as punctuation).
Taggable(words) ==
  {i \in DOMAIN words : \E k \in DOMAIN words[i] : IsWordChar(words[i][k])}

BlankMarker == <<"_","_","_","_","_">>

SuffixIng == <<"i","n","g">>

SuffixEd == <<"e","d">>

SuffixIon == <<"i","o","n">>

\* the options list without the truncated "-ion" distractor
McqOptionsDropTruncated(answer) ==
  <<answer, answer \o SuffixIng, answer \o SuffixEd>>

\* the options list before the shuffle
McqOptions(answer) ==
  <<answer, answer \o SuffixIng, answer \o SuffixEd,
    Take(answer, Len(answer) \div 2) \o SuffixIon>>

\* the orders random.shuffle can leave a list of n entries in
ShuffleOrders(n) == {p \in [1..n -> 1..n] : \A i, j \in 1..n : p[i] = p[j] => i = j}

Shuffled(xs, p) == [i \in DOMAIN xs |-> xs[p[i]]]

McqRecord(s, answer, p) ==
  [type |-> "MCQ",
   question |-> Replace(s, answer, BlankMarker),
   options |-> Shuffled(McqOptions(answer), p),
   answer |-> answer]

\* generate_mcq, one sentence: nothing when no token is tagged a noun
McqOutcomes(sentence) ==
  LET s == NormalizeSentence(sentence)
      words == WordTokenize(s)
  IN  {<<>>} \cup
      UNION {{<<McqRecord(s, words[i], p)>> :
                 p \in ShuffleOrders(Len(McqOptions(words[i])))} :
             i \in Taggable(words)}

RECURSIVE GenerateMcq(_)
GenerateMcq(sentences) ==
  IF sentences = <<>> THEN {<<>>}
  ELSE {h \o t : h \in McqOutcomes(sentences[1]), t \in GenerateMcq(Tail(sentences))}

FillMinLen == 4

\* the end of the run of word characters that starts at i
RECURSIVE WordRunEnd(_, _)
WordRunEnd(s, i) ==
  IF i < Len(s) /\ IsWordChar(s[i + 1]) THEN WordRunEnd(s, i + 1) ELSE i

\* re.search(r"\b([A-Za-z]{4,})\b", s), from a position i where a run of
\* word characters can start: the first whole run made of letters only and
\* at least FillMinLen long; <<>> when there is none.
RECURSIVE FillSearch(_, _)
FillSearch(s, i) ==
  IF i > Len(s) THEN <<>>
  ELSE IF ~IsWordChar(s[i]) THEN FillSearch(s, i + 1)
  ELSE LET j == WordRunEnd(s, i)
           run == SubSeq(s, i, j)
       IN  IF Len(run) >= FillMinLen /\ \A k \in DOMAIN run : IsLetter(run[k])
             THEN run
             ELSE FillSearch(s, j + 1)

FillQuestion(s, ans) == Replace(s, ans, BlankMarker)

\* generate_fill, one sentence
FillOutcome(sentence) ==
  LET s == NormalizeSentence(sentence)
      ans == FillSearch(s, 1)
  IN  IF ans = <<>> THEN <<>>
      ELSE <<[type |-> "Fill-in-the-Blank",
              question |-> FillQuestion(s, ans),
              answer |-> ans]>>

RECURSIVE GenerateFillList(_)
GenerateFillList(sentences) ==
  IF sentences = <<>> THEN <<>>
  ELSE FillOutcome(sentences[1]) \o GenerateFillList(Tail(sentences))

GenerateFill(sentences) == {GenerateFillList(sentences)}

TrueFalseMinTokens == 4

TrueOrFalsePrefix ==
  <<"T","r","u","e"," ","o","r"," ","F","a","l","s","e",":"," ">>

TrueLabel == <<"T","r","u","e">>

FalseLabel == <<"F","a","l","s","e">>

\* generate_true_false, one sentence
TrueFalseOutcomes(sentence) ==
  LET s == NormalizeSentence(sentence)
  IN  IF Len(Split(s)) > TrueFalseMinTokens
        THEN {<<[type |-> "True/False",
                 question |-> TrueOrFalsePrefix \o s,
                 answer |-> a]>> : a \in {TrueLabel, FalseLabel}}
        ELSE {<<>>}

RECURSIVE GenerateTrueFalse(_)
GenerateTrueFalse(sentences) ==
  IF sentences = <<>> THEN {<<>>}
  ELSE {h \o t : h \in TrueFalseOutcomes(sentences[1]),
                 t \in GenerateTrueFalse(Tail(sentences))}

ShortMinTokens == 6

ShortMaxTokens == 25

\* s[i..] starts with at least n digits
DigitsAt(s, i, n) == i + n - 1 <= Len(s) /\ \A k \in i..(i + n - 1) : IsDigit(s[k])

\* the length of the run of digits that starts s
RECURSIVE DigitRunLen(_)
DigitRunLen(s) ==
  IF s # <<>> /\ IsDigit(s[1]) THEN 1 + DigitRunLen(Tail(s)) ELSE 0

\* re.match(r"^\d+\.|[A-Za-z]{2,4}\d{2,}", s)
LooksLikeListItemOrCode(s) ==
  \/ LET n == DigitRunLen(s) IN n >= 1 /\ n < Len(s) /\ s[n + 1] = "."
  \/ \E k \in 2..4 : /\ k <= Len(s)
                     /\ \A m \in 1..k : IsLetter(s[m])
                     /\ DigitsAt(s, k + 1, 2)

\* re.sub(r"^\d+\.\s*", "", s)
StripNumberPrefix(s) ==
  LET n == DigitRunLen(s)
  IN  IF n >= 1 /\ n < Len(s) /\ s[n + 1] = "."
        THEN LStripSet(Drop(s, n + 2), {" ", "\n", "\t"})
        ELSE s

TemplatePrefix1 ==
  <<"W","h","i","c","h"," ","a","c","t","i","v","i","t",
    "y"," ","i","s"," ","r","e","s","p","o","n","s","i",
    "b","l","e"," ","f","o","r"," ">>

TemplateSuffix1 ==
  <<" ","i","n"," ","s","o","f","t","w","a","r","e"," ",
    "e","n","g","i","n","e","e","r","i","n","g","?">>

TemplatePrefix2 ==
  <<"W","h","i","c","h"," ","p","h","a","s","e"," ","d",
    "e","a","l","s"," ","w","i","t","h"," ">>

TemplateSuffix2 ==
  <<" ","d","u","r","i","n","g"," ","d","e","v","e","l",
    "o","p","m","e","n","t","?">>

TemplatePrefix3 ==
  <<"W","h","a","t"," ","e","n","s","u","r","e","s"," ">>

TemplateSuffix3 ==
  <<" ","i","n"," ","s","o","f","t","w","a","r","e"," ",
    "e","n","g","i","n","e","e","r","i","n","g","?">>

TemplatePrefix4 ==
  <<"W","h","a","t"," ","c","o","n","c","e","p","t"," ",
    "i","s"," ","r","e","l","a","t","e","d"," ","t","o",
    " ">>

TemplateSuffix4 ==
  <<" ","i","n"," ","s","o","f","t","w","a","r","e"," ",
    "d","e","s","i","g","n","?">>

TemplatePrefix5 ==
  <<"W","h","i","c","h"," ","s","t","e","p"," ","f","o",
    "c","u","s","e","s"," ","o","n"," ">>

TemplateSuffix5 ==
  <<" ","w","i","t","h","i","n"," ","t","h","e"," ","p",
    "r","o","j","e","c","t","?">>

\* question_templates, for one context word
QuestionTemplates(w) ==
  <<TemplatePrefix1 \o w \o TemplateSuffix1,
    TemplatePrefix2 \o w \o TemplateSuffix2,
    TemplatePrefix3 \o w \o TemplateSuffix3,
    TemplatePrefix4 \o w \o TemplateSuffix4,
    TemplatePrefix5 \o w \o TemplateSuffix5>>

\* "if answer.lower() in question.lower(): continue"
ShortLeaks(answer, question) == Contains(Lower(question), Lower(answer))

\* generate_short_answers, one sentence. A token carries one tag, so the noun
\* and the verb are tokens at different positions.
ShortOutcomes(sentence) ==
  LET s == NormalizeSentence(sentence)
      n == Len(Split(s))
  IN  IF n < ShortMinTokens \/ n > ShortMaxTokens \/ LooksLikeListItemOrCode(s)
        THEN {<<>>}
        ELSE LET words == WordTokenize(StripSet(StripNumberPrefix(s), {" ", "."}))
             IN  {<<>>} \cup
                 {<<[type |-> "Short Answer",
                     question |-> QuestionTemplates(words[j])[k],
                     answer |-> words[i]]>> :
                    <<i, j, k>> \in
                      {t \in Taggable(words) \X Taggable(words)
                                \X DOMAIN QuestionTemplates(<<>>) :
                         /\ t[1] # t[2]
                         /\ ~ShortLeaks(words[t[1]],
                                        QuestionTemplates(words[t[2]])[t[3]])}}

RECURSIVE GenerateShortAnswers(_)
GenerateShortAnswers(sentences) ==
  IF sentences = <<>> THEN {<<>>}
  ELSE {h \o t : h \in ShortOutcomes(sentences[1]),
                 t \in GenerateShortAnswers(Tail(sentences))}

----------------------------------------------------------------------------
(* preprocessing.py                                                        *)
(*                                                                         *)
(* A PDF is the sequence of its pages' texts as pdfplumber extracts them   *)
(* (<<>> for a page without text). nltk's sent_tokenize and the WordNet    *)
(* lemmatizer are outside the repository: the segmenter may cut or not cut *)
(* after each sentence terminator that whitespace follows, so              *)
(* preprocess_text is the SET of sentence lists it can return.             *)

PageWord == <<"P","a","g","e">>

\* the first position from i on that does not hold whitespace
RECURSIVE SkipSpaces(_, _)
SkipSpaces(s, i) ==
  IF i <= Len(s) /\ IsSpace(s[i]) THEN SkipSpaces(s, i + 1) ELSE i

\* the first position from i on that does not hold a digit
RECURSIVE SkipDigits(_, _)
SkipDigits(s, i) ==
  IF i <= Len(s) /\ IsDigit(s[i]) THEN SkipDigits(s, i + 1) ELSE i

\* re.sub(r'Page\s*\d+', '', text)
RECURSIVE RemovePageNumbers(_)
RemovePageNumbers(s) ==
  IF s = <<>> THEN <<>>
  ELSE LET d == SkipSpaces(s, Len(PageWord) + 1)
           e == SkipDigits(s, d)
       IN  IF OccursAt(s, PageWord, 1) /\ e > d
             THEN RemovePageNumbers(Drop(s, e))
             ELSE <<s[1]>> \o RemovePageNumbers(Tail(s))

\* extract_text_from_pdf
RECURSIVE ExtractTextFromPdf(_)
ExtractTextFromPdf(pages) ==
  IF pages = <<>> THEN <<>>
  ELSE (IF pages[1] # <<>> THEN RemovePageNumbers(pages[1]) \o <<" ">> ELSE <<>>)
       \o ExtractTextFromPdf(Tail(pages))

\* re.sub(r'\n+', ' ', raw_text)
RECURSIVE CollapseNewlines(_)
CollapseNewlines(s) ==
  IF s = <<>> THEN <<>>
  ELSE IF s[1] = "\n"
    THEN <<" ">> \o CollapseNewlines(LStripSet(s, {"\n"}))
    ELSE <<s[1]>> \o CollapseNewlines(Tail(s))

\* the allow-list [a-zA-Z0-9.,!?;:'"()\-\s]
IsAllowedChar(c) ==
  \/ IsLetter(c) \/ IsDigit(c) \/ IsSpace(c)
  \/ c \in {".", ",", "!", "?", ";", ":", "'", "\"", "(", ")", "-"}

\* lines 44-48 of preprocess_text
CleanText(raw_text) ==
  LET t1 == CollapseNewlines(raw_text)
      t2 == RemovePageNumbers(t1)
      t3 == Strip(CollapseSpaces(t2))
      t4 == SelectSeq(t3, IsAllowedChar)
  IN  Lower(t4)

MinSentenceTokens == 4

\* the length filter letting a sentence of 4 tokens through
LongEnoughFromFour(s) == Len(Split(Strip(s))) >= MinSentenceTokens

\* the sentence-length filter of lines 52 and 58
LongEnough(s) == Len(Split(Strip(s))) > MinSentenceTokens

RECURSIVE KeepLongEnough(_)
KeepLongEnough(ss) ==
  IF ss = <<>> THEN <<>>
  ELSE (IF LongEnough(ss[1]) THEN <<Strip(ss[1])>> ELSE <<>>)
       \o KeepLongEnough(Tail(ss))

\* sent_tokenize: the segmentations of text from position i on, with cur the
\* sentence being read; a terminator that whitespace follows may end it.
RECURSIVE Segmentations(_, _, _)
Segmentations(s, i, cur) ==
  IF i > Len(s)
    THEN {IF Strip(cur) = <<>> THEN <<>> ELSE <<Strip(cur)>>}
    ELSE LET c == s[i]
             go == Segmentations(s, i + 1, Append(cur, c))
         IN  IF c \in {".", "!", "?"} /\ i < Len(s) /\ IsSpace(s[i + 1])
               THEN go \cup {<<Strip(Append(cur, c))>> \o rest :
                               rest \in Segmentations(s, i + 1, <<>>)}
               ELSE go

SentTokenize(text) == Segmentations(text, 1, <<>>)

\* re.split(r'[.;:\n]', text)
RECURSIVE SplitOnSeparators(_, _)
SplitOnSeparators(s, cur) ==
  IF s = <<>> THEN <<cur>>
  ELSE IF s[1] \in {".", ";", ":", "\n"}
    THEN <<cur>> \o SplitOnSeparators(Tail(s), <<>>)
    ELSE SplitOnSeparators(Tail(s), Append(cur, s[1]))

\* WordNetLemmatizer.lemmatize with the default noun part of speech: the
\* plural ending of a word is detached.
Lemmatize(w) ==
  IF Len(w) > 3 /\ w[Len(w)] = "s" /\ w[Len(w) - 1] # "s"
    THEN Take(w, Len(w) - 1)
    ELSE w

\* lines 63-66: " ".join(lemmatize(w) for w in word_tokenize(s))
LemmatizeSentence(s) ==
  LET words == WordTokenize(s)
  IN  JoinSp([i \in DOMAIN words |-> Lemmatize(words[i])])

\* preprocess_text: the lists of lemmatized sentences it can return
PreprocessText(raw_text) ==
  LET text == CleanText(raw_text)
      fallback == KeepLongEnough(SplitOnSeparators(text, <<>>))
  IN  {LET kept == KeepLongEnough(seg)
           sentences == IF kept = <<>> THEN fallback ELSE kept
       IN  [i \in DOMAIN sentences |-> LemmatizeSentence(sentences[i])] :
       seg \in SentTokenize(text)}

----------------------------------------------------------------------------
(* File names, environment values and the question-type tags               *)

PastedTextName == <<"p","a","s","t","e","d","_","t","e","x","t",".","t",
                    "x","t">>

SamplePdfName == <<"s","a","m","p","l","e",".","p","d","f">>

LastUploadName == <<"l","a","s","t","_","u","p","l","o","a","d",".","t",
                    "x","t">>

TagAll == <<"a","l","l">>

TagMcq == <<"m","c","q">>

TagFill == <<"f","i","l","l">>

TagFillBlanks == <<"f","i","l","l","_","b","l","a","n","k","s">>

TagFillInTheBlanks == <<"f","i","l","l","-","i","n","-","t","h","e","-","b",
                        "l","a","n","k","s">>

TagFillInTheBlanksSp == <<"f","i","l","l"," ","i","n"," ","t","h","e"," ","b",
                          "l","a","n","k","s">>

TagTf == <<"t","f">>

TagTrueFalse == <<"t","r","u","e","_","f","a","l","s","e">>

TagTrueSlashFalse == <<"t","r","u","e","/","f","a","l","s","e">>

TagTruefalse == <<"t","r","u","e","f","a","l","s","e">>

TagTrueOrFalse == <<"t","r","u","e"," ","o","r"," ","f","a","l","s","e">>

TagShort == <<"s","h","o","r","t">>

TagShortAnswer == <<"s","h","o","r","t","_","a","n","s","w","e","r">>

TagShortAnswerSp == <<"s","h","o","r","t"," ","a","n","s","w","e","r">>

SourcePdf == <<"p","d","f">>

SourceText == <<"t","e","x","t">>

SourceAuto == <<"a","u","t","o">>

\* os.getenv(name, default).strip().lower(), for a variable [set, value]
GetEnvNormalized(var, default) ==
  Lower(Strip(IF var.set THEN var.value ELSE default))

FillTags == {TagFill, TagFillBlanks, TagFillInTheBlanks, TagFillInTheBlanksSp}

TfTags == {TagTf, TagTrueFalse, TagTrueSlashFalse, TagTruefalse, TagTrueOrFalse}

ShortTags == {TagShort, TagShortAnswer, TagShortAnswerSp}

AllSynthesizers == <<"generate_mcq", "generate_fill", "generate_true_false",
                     "generate_short_answers">>

\* the selection with the synonym fill_blanks left out
MainSelectFillBlanksUnknown(selected) ==
  IF selected \in {<<>>, TagAll} THEN AllSynthesizers
  ELSE IF selected = TagMcq THEN <<"generate_mcq">>
  ELSE IF selected \in FillTags \ {TagFillBlanks} THEN <<"generate_fill">>
  ELSE IF selected \in TfTags THEN <<"generate_true_false">>
  ELSE IF selected \in ShortTags THEN <<"generate_short_answers">>
  ELSE AllSynthesizers

\* the selection with generate_fill called before generate_mcq
MainSelectFillFirst(selected) ==
  IF selected \in {<<>>, TagAll}
    THEN <<"generate_fill", "generate_mcq", "generate_true_false",
           "generate_short_answers">>
  ELSE IF selected = TagMcq THEN <<"generate_mcq">>
  ELSE IF selected \in FillTags THEN <<"generate_fill">>
  ELSE IF selected \in TfTags THEN <<"generate_true_false">>
  ELSE IF selected \in ShortTags THEN <<"generate_short_answers">>
  ELSE AllSynthesizers

\* run_pipeline.main, lines 84-105: the synthesizers called, in call order
MainSelect(selected) ==
  IF selected \in {<<>>, TagAll} THEN AllSynthesizers
  ELSE IF selected = TagMcq THEN <<"generate_mcq">>
  ELSE IF selected \in FillTags THEN <<"generate_fill">>
  ELSE IF selected \in TfTags THEN <<"generate_true_false">>
  ELSE IF selected \in ShortTags THEN <<"generate_short_answers">>
  ELSE AllSynthesizers

\* question_generation.py, lines 128-152: the same choice in the script
QgScriptSelect(selected) ==
  IF selected \in {<<>>, TagAll} THEN AllSynthesizers
  ELSE IF selected = TagMcq THEN <<"generate_mcq">>
  ELSE IF selected \in FillTags THEN <<"generate_fill">>
  ELSE IF selected \in TfTags THEN <<"generate_true_false">>
  ELSE IF selected \in ShortTags THEN <<"generate_short_answers">>
  ELSE AllSynthesizers

\* the record lists one synthesizer can return
Synthesize(name, sentences) ==
  CASE name = "generate_mcq" -> GenerateMcq(sentences)
    [] name = "generate_fill" -> GenerateFill(sentences)
    [] name = "generate_true_false" -> GenerateTrueFalse(sentences)
    [] name = "generate_short_answers" -> GenerateShortAnswers(sentences)

\* the "+" of the lists the called synthesizers return, in call order
RECURSIVE SynthesizeAll(_, _)
SynthesizeAll(calls, sentences) ==
  IF calls = <<>> THEN {<<>>}
  ELSE {h \o t : h \in Synthesize(calls[1], sentences),
                 t \in SynthesizeAll(Tail(calls), sentences)}

----------------------------------------------------------------------------
(* run_pipeline.py                                                         *)

NoFile == [exists |-> FALSE, content |-> <<>>]

File(c) == [exists |-> TRUE, content |-> c]

\* one record as write_generated_questions (number 0) or the script's
\* writer (number n, the "n) " prefix) lays it out
Block(q, number) ==
  [number |-> number,
   type |-> q.type,
   question |-> q.question,
   options |-> IF q.type = "MCQ" THEN q.options ELSE <<>>,
   answer |-> q.answer]

\* write_generated_questions
WriteGeneratedQuestions(questions) ==
  [i \in DOMAIN questions |-> Block(questions[i], 0)]

TypeOrder == <<"MCQ", "Fill-in-the-Blank", "True/False", "Short Answer">>

TypesOf(questions) == {questions[i].type : i \in DOMAIN questions}

\* line 111: any(t in selected for t in ("", "all")) or more than one type
MultiType(selected, questions) ==
  \/ \E t \in {<<>>, TagAll} : Contains(selected, t)
  \/ Cardinality(TypesOf(questions)) > 1

MinReadableChars == 10

\* the length test without the strip
TooShortUnstripped(raw_text) == Len(raw_text) < MinReadableChars

\* line 77: len(raw_text.strip()) < 10
TooShort(raw_text) == Len(Strip(raw_text)) < MinReadableChars

MaxChars == 20000

\* lines 58-61 and 71-74: raw_text[:MAX_CHARS]
Truncate(raw_text) ==
  IF Len(raw_text) > MaxChars THEN Take(raw_text, MaxChars) ELSE raw_text

\* lines 25-37: the PDF path, from uploads/last_upload.txt when it names an
\* existing file other than the pasted-text marker, else uploads/sample.pdf
ResolvePdfPath(record, existing) ==
  IF record.exists
    THEN LET last == Strip(record.content)
         IN  IF last # <<>> /\ last # PastedTextName /\ last \in existing
               THEN last
               ELSE SamplePdfName
    ELSE SamplePdfName

\* the choice of input without the pasted-text branch of lines 68-74
ReadInputNoTextFallback(source, pdf_path, pdfs, existing, pasted) ==
  IF source = SourcePdf
    THEN IF pdf_path \notin existing
           THEN [path |-> <<>>, raw_text |-> <<>>, cause |-> "pdf not found"]
         ELSE IF pdf_path \in DOMAIN pdfs
           THEN [path |-> pdf_path, raw_text |-> ExtractTextFromPdf(pdfs[pdf_path]),
                 cause |-> "none"]
           ELSE [path |-> <<>>, raw_text |-> <<>>, cause |-> "not a pdf"]
  ELSE IF source = SourceText
    THEN IF pasted.exists
           THEN [path |-> PastedTextName, raw_text |-> Truncate(pasted.content),
                 cause |-> "none"]
           ELSE [path |-> <<>>, raw_text |-> <<>>, cause |-> "text not found"]
  ELSE IF pdf_path \in existing
    THEN IF pdf_path \in DOMAIN pdfs
           THEN [path |-> pdf_path, raw_text |-> ExtractTextFromPdf(pdfs[pdf_path]),
                 cause |-> "none"]
           ELSE [path |-> <<>>, raw_text |-> <<>>, cause |-> "not a pdf"]
  ELSE [path |-> <<>>, raw_text |-> <<>>, cause |-> "no input found"]

\* lines 47-76: the file main reads and the text it gets from it, or the
\* error it raises. pdfs maps the names of the PDFs under uploads/ to their
\* pages; existing holds the names of all files under uploads/.
ReadInput(source, pdf_path, pdfs, existing, pasted) ==
  IF source = SourcePdf
    THEN IF pdf_path \notin existing
           THEN [path |-> <<>>, raw_text |-> <<>>, cause |-> "pdf not found"]
         ELSE IF pdf_path \in DOMAIN pdfs
           THEN [path |-> pdf_path, raw_text |-> ExtractTextFromPdf(pdfs[pdf_path]),
                 cause |-> "none"]
           ELSE [path |-> <<>>, raw_text |-> <<>>, cause |-> "not a pdf"]
  ELSE IF source = SourceText
    THEN IF pasted.exists
           THEN [path |-> PastedTextName, raw_text |-> Truncate(pasted.content),
                 cause |-> "none"]
           ELSE [path |-> <<>>, raw_text |-> <<>>, cause |-> "text not found"]
  ELSE IF pdf_path \in existing
    THEN IF pdf_path \in DOMAIN pdfs
           THEN [path |-> pdf_path, raw_text |-> ExtractTextFromPdf(pdfs[pdf_path]),
                 cause |-> "none"]
           ELSE [path |-> <<>>, raw_text |-> <<>>, cause |-> "not a pdf"]
  ELSE IF pasted.exists
    THEN [path |-> PastedTextName, raw_text |-> Truncate(pasted.content),
          cause |-> "none"]
  ELSE [path |-> <<>>, raw_text |-> <<>>, cause |-> "no input found"]

\* the blocks of one type, in file order
OfType(blocks, t) == LET Is(b) == b.type = t IN SelectSeq(blocks, Is)

Orders(xs) == {Shuffled(xs, p) : p \in ShuffleOrders(Len(xs))}

\* rz.load_questions, rz.randomize_within_types and rz.save_randomized: the
\* blocks grouped by type tag, each group shuffled, the groups in type order
RandomizeWithinTypes(blocks) ==
  {a \o b \o c \o d : a \in Orders(OfType(blocks, TypeOrder[1])),
                      b \in Orders(OfType(blocks, TypeOrder[2])),
                      c \in Orders(OfType(blocks, TypeOrder[3])),
                      d \in Orders(OfType(blocks, TypeOrder[4]))}

\* oq.group_by_type: the blocks of each type
GroupByType(blocks) ==
  [t \in {TypeOrder[i] : i \in DOMAIN TypeOrder} |-> OfType(blocks, t)]

PreviewCount == 10

\* line 133: paras[:10]
Preview(blocks) ==
  IF Len(blocks) > PreviewCount THEN Take(blocks, PreviewCount) ELSE blocks

ScriptMinLineLen == 4

\* question_generation.py line 121: the stripped lines longer than 4
RECURSIVE LoadSentences(_)
LoadSentences(lines) ==
  IF lines = <<>> THEN <<>>
  ELSE (IF Len(Strip(lines[1])) > ScriptMinLineLen THEN <<Strip(lines[1])>> ELSE <<>>)
       \o LoadSentences(Tail(lines))

\* question_generation.py lines 156-164: the numbered listing
WriteNumbered(questions) == [i \in DOMAIN questions |-> Block(questions[i], i)]

----------------------------------------------------------------------------
(* State                                                                   *)

VARIABLES
  env_input_source,      \* os.environ["INPUT_SOURCE"]: [set, value]
  last_upload,           \* uploads/last_upload.txt
  uploads,               \* the PDFs under uploads/: name -> pages
  pasted_text,           \* uploads/pasted_text.txt
  cleaned_sentences,     \* cleaned_sentences.txt, one sentence a line
  generated_questions,   \* generated_questions.txt, a sequence of blocks
  randomized_questions,  \* randomized_questions.txt
  quiz_pdf,              \* Generated_Quiz.pdf
  preview,               \* generated_questions_preview.txt
  runs,                  \* the processes started: position and locals
  polled,                \* whether /status has told run r's page ready
  call                   \* a direct call of one synthesizer: argument, result

vars == <<env_input_source, last_upload, uploads, pasted_text,
          cleaned_sentences, generated_questions, randomized_questions,
          quiz_pdf, preview, runs, polled, call>>

files == <<last_upload, uploads, pasted_text, cleaned_sentences,
           generated_questions, randomized_questions, quiz_pdf, preview>>

MaxRuns == 2

RunIds == 1..MaxRuns

\* a process that has exited: its locals are gone, its error message stays
Exited(run, pc, cause) ==
  [program |-> run.program, pc |-> pc, question_type |-> <<>>,
   input_path |-> <<>>, raw_text |-> <<>>, sentences |-> <<>>,
   questions |-> <<>>, invoked |-> <<>>, source_file |-> "none",
   source_content |-> <<>>, cause |-> cause]

IdleRun ==
  [program |-> "run_pipeline.py", pc |-> "idle", question_type |-> <<>>,
   input_path |-> <<>>, raw_text |-> <<>>, sentences |-> <<>>,
   questions |-> <<>>, invoked |-> <<>>, source_file |-> "none",
   source_content |-> <<>>, cause |-> "none"]

NoCall == [fn |-> "none", sentences |-> <<>>, returned |-> FALSE, records |-> <<>>]

\* the names of the files under uploads/
Existing ==
  DOMAIN uploads
  \cup (IF pasted_text.exists THEN {PastedTextName} ELSE {})
  \cup (IF last_upload.exists THEN {LastUploadName} ELSE {})

InFlight(r) ==
  runs[r].pc \in {"extracting", "normalizing", "synthesizing",
                  "selecting_source", "rendering", "qg_script", "qg_writing"}

----------------------------------------------------------------------------
(* run_pipeline.main, step by step: each step ends where another process   *)
(* can next see or change a shared file                                    *)

\* lines 21-76
Extracting(r) ==
  /\ runs[r].pc = "extracting"
  /\ LET source == GetEnvNormalized(env_input_source, SourceAuto)
         pdf_path == ResolvePdfPath(last_upload, Existing)
         got == ReadInput(source, pdf_path, uploads, Existing, pasted_text)
     IN  IF got.cause = "none"
           THEN runs' = [runs EXCEPT ![r].pc = "normalizing",
                                     ![r].input_path = got.path,
                                     ![r].raw_text = got.raw_text]
           ELSE runs' = [runs EXCEPT ![r] = Exited(@, "failed", got.cause)]
  /\ UNCHANGED <<env_input_source, files, polled, call>>

\* lines 77-80: the readable-length check, preprocess_text, save_outputs
Normalizing(r) ==
  /\ runs[r].pc = "normalizing"
  /\ IF TooShort(runs[r].raw_text)
       THEN /\ runs' = [runs EXCEPT ![r] = Exited(@, "failed", "no readable text")]
            /\ UNCHANGED cleaned_sentences
       ELSE \E sentences \in PreprocessText(runs[r].raw_text) :
              /\ runs' = [runs EXCEPT ![r].pc = "synthesizing",
                                      ![r].sentences = sentences]
              /\ cleaned_sentences' = File(sentences)
  /\ UNCHANGED <<env_input_source, last_upload, uploads, pasted_text,
                 generated_questions, randomized_questions, quiz_pdf, preview,
                 polled, call>>

\* lines 83-108
Synthesizing(r) ==
  /\ runs[r].pc = "synthesizing"
  /\ LET selected == Lower(Strip(runs[r].question_type))
         calls == MainSelect(selected)
     IN  \E questions \in SynthesizeAll(calls, runs[r].sentences) :
           /\ runs' = [runs EXCEPT ![r].pc = "selecting_source",
                                   ![r].invoked = calls,
                                   ![r].questions = questions]
           /\ generated_questions' = File(WriteGeneratedQuestions(questions))
  /\ UNCHANGED <<env_input_source, last_upload, uploads, pasted_text,
                 cleaned_sentences, randomized_questions, quiz_pdf, preview,
                 polled, call>>

\* lines 110-124
SelectingSource(r) ==
  /\ runs[r].pc = "selecting_source"
  /\ IF MultiType(Lower(Strip(runs[r].question_type)), runs[r].questions)
       THEN \E shuffled \in RandomizeWithinTypes(generated_questions.content) :
              /\ randomized_questions' = File(shuffled)
              /\ runs' = [runs EXCEPT ![r].pc = "rendering",
                                      ![r].source_file = "randomized_questions.txt",
                                      ![r].source_content = shuffled]
       ELSE /\ UNCHANGED randomized_questions
            /\ runs' = [runs EXCEPT ![r].pc = "rendering",
                                    ![r].source_file = "generated_questions.txt",
                                    ![r].source_content = generated_questions.content]
  /\ UNCHANGED <<env_input_source, last_upload, uploads, pasted_text,
                 cleaned_sentences, generated_questions, quiz_pdf, preview,
                 polled, call>>

\* lines 127-140: the renderer writes Generated_Quiz.pdf or raises
Rendering(r) ==
  /\ runs[r].pc = "rendering"
  /\ \E rendered \in BOOLEAN :
       IF rendered
         THEN /\ quiz_pdf' = File(GroupByType(runs[r].source_content))
              /\ preview' = File(Preview(runs[r].source_content))
              /\ runs' = [runs EXCEPT ![r] = Exited(@, "done", "none")]
         ELSE /\ UNCHANGED <<quiz_pdf, preview>>
              /\ runs' = [runs EXCEPT ![r] = Exited(@, "failed", "renderer failure")]
  /\ UNCHANGED <<env_input_source, last_upload, uploads, pasted_text,
                 cleaned_sentences, generated_questions, randomized_questions,
                 polled, call>>

\* question_generation.py run as a script, lines 119-152
QgScript(r) ==
  /\ runs[r].pc = "qg_script"
  /\ IF ~cleaned_sentences.exists
       THEN /\ runs' = [runs EXCEPT ![r] =
                                      Exited(@, "failed", "no cleaned_sentences.txt")]
       ELSE LET sentences == LoadSentences(cleaned_sentences.content)
                calls == QgScriptSelect(Lower(Strip(runs[r].question_type)))
            IN  \E questions \in SynthesizeAll(calls, sentences) :
                  /\ runs' = [runs EXCEPT ![r].pc = "qg_writing",
                                          ![r].sentences = sentences,
                                          ![r].invoked = calls,
                                          ![r].questions = questions]
  /\ UNCHANGED <<env_input_source, files, polled, call>>

\* question_generation.py, lines 154-166
QgWriting(r) ==
  /\ runs[r].pc = "qg_writing"
  /\ generated_questions' = File(WriteNumbered(runs[r].questions))
  /\ runs' = [runs EXCEPT ![r] = Exited(@, "done", "none")]
  /\ UNCHANGED <<env_input_source, last_upload, uploads, pasted_text,
                 cleaned_sentences, randomized_questions, quiz_pdf, preview,
                 polled, call>>

Step(r) ==
  \/ Extracting(r)
  \/ Normalizing(r)
  \/ Synthesizing(r)
  \/ SelectingSource(r)
  \/ Rendering(r)


----------------------------------------------------------------------------
(* app.py: the request handlers                                            *)

RECURSIVE Decimal(_)
\* str(n) for n >= 0
Decimal(n) ==
  LET d == <<"0","1","2","3","4","5","6","7","8","9">>[(n % 10) + 1]
  IN  IF n < 10 THEN <<d>> ELSE Decimal(n \div 10) \o <<d>>

\* werkzeug's secure_filename on the names used here: whitespace becomes
\* "_" and path separators are dropped
RECURSIVE SecureFilename(_)
SecureFilename(name) ==
  IF name = <<>> THEN <<>>
  ELSE (IF IsSpace(name[1]) THEN <<"_">>
        ELSE IF name[1] \in {"/", "\\"} THEN <<>>
        ELSE <<name[1]>>) \o SecureFilename(Tail(name))

\* line 55: f"{int(time.time())}_{fname}"
UniqueName(t, filename) == Decimal(t) \o <<"_">> \o SecureFilename(filename)

\* /prepare, lines 40-87. upload is request.files.get("pdf"): [given,
\* filename, pages]; t is what time.time() returns, the wall clock.
Prepare(input_mode, upload, text_content, t) ==
  /\ IF input_mode = "file"
       THEN IF ~upload.given \/ upload.filename = <<>>
              THEN UNCHANGED <<last_upload, uploads, pasted_text, quiz_pdf>>
              ELSE LET unique_name == UniqueName(t, upload.filename)
                   IN  /\ uploads' = [n \in DOMAIN uploads \cup {unique_name} |->
                                        IF n = unique_name THEN upload.pages
                                                           ELSE uploads[n]]
                       /\ last_upload' = File(unique_name)
                       /\ quiz_pdf' = NoFile
                       /\ UNCHANGED pasted_text
       ELSE IF input_mode = "text"
         THEN IF Strip(text_content) = <<>>
                THEN UNCHANGED <<last_upload, uploads, pasted_text, quiz_pdf>>
                ELSE /\ pasted_text' = File(Strip(text_content))
                     /\ last_upload' = File(PastedTextName)
                     /\ quiz_pdf' = NoFile
                     /\ UNCHANGED uploads
         ELSE UNCHANGED <<last_upload, uploads, pasted_text, quiz_pdf>>
  /\ UNCHANGED <<env_input_source, cleaned_sentences, generated_questions,
                 randomized_questions, preview, runs, polled, call>>

\* /start, lines 89-94, and _run_pipeline, lines 32-37: a thread that runs
\* run_pipeline.py with QUESTION_TYPE set; r is the process it becomes
StartGeneration(r, question_type) ==
  /\ runs[r].pc = "idle"
  /\ \A q \in RunIds : q < r => runs[q].pc # "idle"
  /\ runs' = [runs EXCEPT ![r].pc = "extracting",
                          ![r].question_type = question_type]
  /\ UNCHANGED <<env_input_source, files, polled, call>>

\* /status, lines 110-113, polled by the processing page that /start for
\* run r redirected to, until it is told ready; polled[r] is that answer
Status(r) ==
  /\ runs[r].pc # "idle"
  /\ ~polled[r]
  /\ polled' = [polled EXCEPT ![r] = quiz_pdf.exists]
  /\ UNCHANGED <<env_input_source, files, runs, call>>

----------------------------------------------------------------------------
(* The web application: requests in any order, runs in the background      *)

UploadedName == <<"a",".","p","d","f">>

SpacedName == <<"m","y"," ","q","u","i","z",".","p","d","f">>

ReadablePage == <<"P","a","g","e"," ","1"," ","T","e","s","t","s"," ",
                  "a","a","a","a"," ","a"," ","a"," ","a">>

GoodPastedText == <<"A","a","a","a"," ","a"," ","a","\n","a"," ","a">>

ShortPastedText == <<" ","t","o","o"," ","s","h","o","r","t"," ">>

RichText == <<"A","a","a","a"," ","b"," ","b"," ","b"," ","b"," ",
              "b">>

TwoSentenceText == <<"a"," ","a"," ","a"," ","a"," ","a","."," ","P","a",
                     "g","e"," ","2"," ","a"," ","a"," ","a"," ","a"," ",
                     "a">>

SampleText == <<"s","a","m","p","l","e"," ","a"," ","a"," ","a"," ",
                "a">>

RecordedText == <<"r","e","c","o","r","d","e","d"," ","a"," ","a"," ",
                  "a"," ","a">>

PastedText == <<"p","a","s","t","e","d"," ","a"," ","a"," ","a"," ",
                "a">>

RecordedName == <<"1","_","a",".","p","d","f">>

RecordedNameLine == <<"1","_","a",".","p","d","f","\n">>

MissingName == <<"g","o","n","e",".","p","d","f">>

TagUnknown == <<"x","y","z">>

TagMcqPlural == <<"m","c","q","s">>

TagAllSpacedUpper == <<" ","A","L","L"," ">>

TagFillBlanksMixed == <<"F","i","l","l","_","B","l","a","n","k","s"," ">>

TagTfUpper == <<"T","F">>

SourcePdfSpacedUpper == <<" ","P","D","F"," ">>

SourceUnknown == <<"f","i","l","e">>

MaxTime == 2

NoUpload == [given |-> FALSE, filename |-> <<>>, pages |-> <<>>]

\* the uploads a request can carry: none, one without a file name, a PDF
\* with a readable page, a scanned PDF without text
WebUploads ==
  {NoUpload,
   [given |-> TRUE, filename |-> <<>>, pages |-> <<ReadablePage>>],
   [given |-> TRUE, filename |-> UploadedName, pages |-> <<ReadablePage>>],
   [given |-> TRUE, filename |-> UploadedName, pages |-> <<(<<>>)>>]}

WebTexts == {<<>>, <<" ">>, GoodPastedText, ShortPastedText}

WebQuestionTypes == {TagFill, TagFillBlanksMixed}

NoUploads == [n \in {} |-> <<>>]

Init ==
  /\ env_input_source = [set |-> FALSE, value |-> <<>>]
  /\ last_upload = NoFile
  /\ uploads = NoUploads
  /\ pasted_text = NoFile
  /\ cleaned_sentences = NoFile
  /\ generated_questions = NoFile
  /\ randomized_questions = NoFile
  /\ quiz_pdf = NoFile
  /\ preview = NoFile
  /\ runs = [r \in RunIds |-> IdleRun]
  /\ polled = [r \in RunIds |-> FALSE]
  /\ call = NoCall

Next ==
  \/ \E u \in WebUploads, t \in 1..MaxTime : Prepare("file", u, <<>>, t)
  \/ \E x \in WebTexts, t \in 1..MaxTime : Prepare("text", NoUpload, x, t)
  \/ \E t \in 1..MaxTime : Prepare("url", NoUpload, <<>>, t)
  \/ \E r \in RunIds, q \in WebQuestionTypes : StartGeneration(r, q)
  \/ \E r \in RunIds : Status(r)
  \/ \E r \in RunIds : Step(r)

Spec == Init /\ [][Next]_vars


----------------------------------------------------------------------------
(* One process started from the command line: run_pipeline.py or           *)
(* question_generation.py, over the files and the environment it finds     *)

MaxTextLen == 10

\* the strings over an alphabet, up to a length
StringsUpTo(alphabet, n) == UNION {[1..k -> alphabet] : k \in 0..n}

Unset == [set |-> FALSE, value |-> <<>>]

Set(v) == [set |-> TRUE, value |-> v]

RichSentence == Lower(RichText)

FilterValues ==
  {<<>>, TagAll, TagMcq, TagUnknown, TagMcqPlural, TagAllSpacedUpper,
   TagFillBlanksMixed, TagTfUpper}
  \cup FillTags \cup TfTags \cup ShortTags

Case(env, record, pdfs, pasted, cleaned, program, question_type) ==
  [env |-> env, last_upload |-> record, uploads |-> pdfs, pasted_text |-> pasted,
   cleaned_sentences |-> cleaned, program |-> program,
   question_type |-> question_type]

\* every short text over "a" and " ", pasted
TextCases ==
  {Case(Unset, File(PastedTextName), NoUploads, File(x), NoFile,
        "run_pipeline.py", <<>>) : x \in StringsUpTo({"a", " "}, MaxTextLen)}

PdfSets ==
  {[n \in s |-> IF n = SamplePdfName THEN <<SampleText>> ELSE <<RecordedText>>] :
     s \in SUBSET {SamplePdfName, RecordedName}}

\* every INPUT_SOURCE, recorded reference and set of files present
ResolutionCases ==
  {Case(e, l, u, p, NoFile, "run_pipeline.py", TagTfUpper) :
     e \in {Unset, Set(SourcePdf), Set(SourceText), Set(SourceAuto),
            Set(SourcePdfSpacedUpper), Set(SourceUnknown)},
     l \in {NoFile, File(<<>>), File(PastedTextName), File(RecordedName),
            File(RecordedNameLine), File(MissingName)},
     u \in PdfSets,
     p \in {NoFile, File(PastedText)}}

\* every QUESTION_TYPE, over a sentence that every synthesizer accepts
FilterCases ==
  {Case(Unset, File(PastedTextName), NoUploads, File(RichText), NoFile,
        "run_pipeline.py", q) : q \in FilterValues}

\* two sentences, so that a type holds more than one record
TwoSentenceCases ==
  {Case(Unset, File(PastedTextName), NoUploads, File(TwoSentenceText), NoFile,
        "run_pipeline.py", q) : q \in {TagTf, TagMcq}}

\* the script, over the cleaned_sentences.txt an earlier run left or none
ScriptCases ==
  {Case(Unset, NoFile, NoUploads, NoFile, c, "question_generation.py", q) :
     c \in {NoFile, File(<<RichSentence, <<"b", " ", "b">>, <<".", " ", ".", " ", ".">>>>)},
     q \in FilterValues}

\* "a b c! d e f; g": cut after "!", no sentence is long enough, and the
\* split on . ; : of lines 55-58 gives "a b c! d e f" and " g"
FallbackText ==
  <<"a"," ","b"," ","c","!"," ","d"," ","e"," ","f",";"," ","g">>

\* "ok go now. a b c d e.": Scenario D, a sentence of 3 tokens before one of 5
ShortSentenceText ==
  <<"o","k"," ","g","o"," ","n","o","w","."," ",
    "a"," ","b"," ","c"," ","d"," ","e",".">>

\* texts that take the primary and the fallback segmentation path
SegmentationCases ==
  {Case(Unset, File(PastedTextName), NoUploads, File(x), NoFile,
        "run_pipeline.py", TagTf) : x \in {FallbackText, ShortSentenceText}}

MainCases ==
  TextCases \cup ResolutionCases \cup FilterCases \cup TwoSentenceCases
  \cup ScriptCases \cup SegmentationCases

InitMain ==
  \E c \in MainCases :
    /\ env_input_source = c.env
    /\ last_upload = c.last_upload
    /\ uploads = c.uploads
    /\ pasted_text = c.pasted_text
    /\ cleaned_sentences = c.cleaned_sentences
    /\ generated_questions = NoFile
    /\ randomized_questions = NoFile
    /\ quiz_pdf = NoFile
    /\ preview = NoFile
    /\ runs = [r \in RunIds |->
                 IF r = 1
                   THEN [IdleRun EXCEPT
                           !.program = c.program,
                           !.pc = IF c.program = "run_pipeline.py"
                                    THEN "extracting" ELSE "qg_script",
                           !.question_type = c.question_type]
                   ELSE IdleRun]
    /\ polled = [r \in RunIds |-> FALSE]
    /\ call = NoCall

NextMain ==
  \/ \E r \in RunIds : Step(r)
  \/ \E r \in RunIds : QgScript(r)
  \/ \E r \in RunIds : QgWriting(r)

SpecMain == InitMain /\ [][NextMain]_vars

----------------------------------------------------------------------------
(* One call of one synthesizer on a list of sentences                      *)

MaxMcqLen == 5

MaxFillWords == 2

MaxShortTokens == 6

\* the sequences of 1..n words of a vocabulary, joined by single spaces
SentencesOf(vocabulary, lo, hi) ==
  {JoinSp(ws) : ws \in UNION {[1..k -> vocabulary] : k \in lo..hi}}

McqSentences == StringsUpTo({"i", "o", "n", " "}, MaxMcqLen)

FillWords ==
  [1..FillMinLen -> {"a", "A"}]
  \cup {<<"a">>, <<"a","a","a","a","a">>, <<"A","a","a","a","1">>}

FillSentences == SentencesOf(FillWords, 1, MaxFillWords)

ShortWords == {<<"i","n">>, <<"D","e","s","i","g","n">>, <<"1",".">>}

ShortSentences == SentencesOf(ShortWords, ShortMinTokens - 1, MaxShortTokens)

TrueFalseSentences == StringsUpTo({"a", " "}, MaxTextLen)

SynthCalls ==
  {[fn |-> "generate_mcq", sentences |-> <<s>>, returned |-> FALSE,
    records |-> <<>>] : s \in McqSentences}
  \cup {[fn |-> "generate_fill", sentences |-> <<s>>, returned |-> FALSE,
         records |-> <<>>] : s \in FillSentences}
  \cup {[fn |-> "generate_true_false", sentences |-> <<s>>, returned |-> FALSE,
         records |-> <<>>] : s \in TrueFalseSentences}
  \cup {[fn |-> "generate_short_answers", sentences |-> <<s>>,
         returned |-> FALSE, records |-> <<>>] : s \in ShortSentences}
  \cup {[fn |-> f, sentences |-> <<>>, returned |-> FALSE, records |-> <<>>] :
          f \in {AllSynthesizers[i] : i \in DOMAIN AllSynthesizers}}

InitSynth ==
  /\ env_input_source = Unset
  /\ last_upload = NoFile
  /\ uploads = NoUploads
  /\ pasted_text = NoFile
  /\ cleaned_sentences = NoFile
  /\ generated_questions = NoFile
  /\ randomized_questions = NoFile
  /\ quiz_pdf = NoFile
  /\ preview = NoFile
  /\ runs = [r \in RunIds |-> IdleRun]
  /\ polled = [r \in RunIds |-> FALSE]
  /\ call \in SynthCalls

Pending(fn) == call.fn = fn /\ ~call.returned

Returns(records) ==
  /\ call' = [call EXCEPT !.returned = TRUE, !.records = records]
  /\ UNCHANGED <<env_input_source, files, runs, polled>>

CallGenerateMcq ==
  /\ Pending("generate_mcq")
  /\ \E records \in GenerateMcq(call.sentences) : Returns(records)

CallGenerateFill ==
  /\ Pending("generate_fill")
  /\ \E records \in GenerateFill(call.sentences) : Returns(records)

CallGenerateTrueFalse ==
  /\ Pending("generate_true_false")
  /\ \E records \in GenerateTrueFalse(call.sentences) : Returns(records)

CallGenerateShortAnswers ==
  /\ Pending("generate_short_answers")
  /\ \E records \in GenerateShortAnswers(call.sentences) : Returns(records)

NextSynth ==
  \/ CallGenerateMcq
  \/ CallGenerateFill
  \/ CallGenerateTrueFalse
  \/ CallGenerateShortAnswers

SpecSynth == InitSynth /\ [][NextSynth]_vars

----------------------------------------------------------------------------
(* Claims about the web application, checked under Spec                    *)

\* C1: at most one pipeline run is in flight at any time: a /start received
\* while an earlier run has not finished is rejected or queued, so two runs
\* never execute concurrently.
C1_AtMostOneRunInFlight ==
  Cardinality({r \in RunIds : InFlight(r)}) <= 1

\* C2: when a run starts, no Generated_Quiz.pdf of a previous run exists;
\* so /status never answers ready to the page of a run that has not yet
\* written its own Generated_Quiz.pdf.
C2_NoStaleArtifactWhenRunStarts ==
  [][/\ \A r \in RunIds :
          (runs[r].pc = "idle" /\ runs'[r].pc = "extracting") => ~quiz_pdf.exists
     /\ \A r \in RunIds :
          (~polled[r] /\ polled'[r]) => runs[r].pc = "done"]_vars

\* C3: when a run ends in Failed because no input was found or the text
\* was below the readable length, Generated_Quiz.pdf does not exist.
C3_NoArtifactWhenRunFails ==
  [][\A r \in RunIds :
       (/\ runs[r].pc # "failed"
        /\ runs'[r].pc = "failed"
        /\ runs'[r].cause \in {"no input found", "no readable text"})
       => ~quiz_pdf'.exists]_vars


----------------------------------------------------------------------------
(* Claims about one run of the pipeline, checked under SpecMain            *)

\* the run holds the locals of lines 83-108
HasQuestions(r) ==
  runs[r].program = "run_pipeline.py" /\ runs[r].pc \in {"selecting_source", "rendering"}

\* C4: Randomizing (load_questions, randomize_within_types,
\* save_randomized) is executed if and only if the synthesized list holds
\* records of more than one type; otherwise generated_questions.txt is
\* rendered unshuffled.
C4_RandomizingIffSeveralTypes ==
  \A r \in RunIds :
    (runs[r].program = "run_pipeline.py" /\ runs[r].pc = "rendering") =>
      (runs[r].source_file = "randomized_questions.txt"
         <=> Cardinality(TypesOf(runs[r].questions)) > 1)

NonSpaceCount(s) == Cardinality({i \in DOMAIN s : ~IsSpace(s[i])})

\* C7 as stated: a text with fewer than 10 non-whitespace characters makes
\* the run fail with the unreadable-content error; it never reaches
\* normalization or synthesis.
C7_FewNonSpaceCharsIsFatal ==
  [][\A r \in RunIds :
       (/\ runs[r].pc = "normalizing"
        /\ runs'[r].pc # "normalizing"
        /\ NonSpaceCount(runs[r].raw_text) < 10)
       => (runs'[r].pc = "failed" /\ runs'[r].cause = "no readable text")]_vars

\* C7 as amended: a text with fewer than 10 characters once its leading and
\* trailing whitespace is removed makes the run fail with the
\* unreadable-content error; it never reaches normalization or synthesis.
C7_TrimmedShortTextIsFatal ==
  [][\A r \in RunIds :
       (/\ runs[r].pc = "normalizing"
        /\ runs'[r].pc # "normalizing"
        /\ Len(Strip(runs[r].raw_text)) < 10)
       => (runs'[r].pc = "failed" /\ runs'[r].cause = "no readable text")]_vars

\* a pasted text with whitespace inside and fewer than 10 characters once
\* trimmed has made the run fail
C7_Witness ==
  \E r \in RunIds :
    /\ runs[r].pc = "failed"
    /\ runs[r].cause = "no readable text"
    /\ uploads = NoUploads
    /\ pasted_text.exists
    /\ Len(Strip(pasted_text.content)) < 10
    /\ \E i \in DOMAIN Strip(pasted_text.content) : IsSpace(Strip(pasted_text.content)[i])

Range(xs) == {xs[i] : i \in DOMAIN xs}

\* C8: the synthesizers a run calls depend only on the trimmed, lower-cased
\* filter: one for a recognized tag or a synonym of it, all four for "",
\* "all" and anything else; the filter never makes the run fail; and
\* run_pipeline.main and the question_generation script call the same ones.
C8_SynthesizersFollowFilter ==
  \A r \in RunIds :
    /\ runs[r].pc \in {"selecting_source", "rendering", "qg_writing"} =>
         LET selected == Lower(Strip(runs[r].question_type))
             expected ==
               IF selected = TagMcq THEN {"generate_mcq"}
               ELSE IF selected \in {TagFill, TagFillBlanks, TagFillInTheBlanks,
                                     TagFillInTheBlanksSp}
                 THEN {"generate_fill"}
               ELSE IF selected \in {TagTf, TagTrueFalse, TagTrueSlashFalse,
                                     TagTruefalse, TagTrueOrFalse}
                 THEN {"generate_true_false"}
               ELSE IF selected \in {TagShort, TagShortAnswer, TagShortAnswerSp}
                 THEN {"generate_short_answers"}
               ELSE {"generate_mcq", "generate_fill", "generate_true_false",
                     "generate_short_answers"}
         IN  /\ Range(runs[r].invoked) = expected
             /\ Len(runs[r].invoked) = Cardinality(expected)
             /\ Range(MainSelect(selected)) = Range(QgScriptSelect(selected))
    /\ runs[r].pc = "failed" =>
         runs[r].cause \in {"pdf not found", "text not found", "no input found",
                            "not a pdf", "no readable text", "renderer failure",
                            "no cleaned_sentences.txt"}

\* a run given "Fill_Blanks " has called generate_fill alone
C8_Witness ==
  \E r \in RunIds :
    /\ runs[r].program = "run_pipeline.py"
    /\ runs[r].pc = "selecting_source"
    /\ runs[r].question_type = TagFillBlanksMixed
    /\ runs[r].invoked = <<"generate_fill">>
    /\ runs[r].questions # <<>>

TypeRank(t) == CHOOSE i \in DOMAIN TypeOrder : TypeOrder[i] = t

\* C9: in the list passed to write_generated_questions all MCQ records come
\* before all Fill-in-the-Blank records, these before all True/False
\* records, and these before all Short Answer records.
C9_QuestionsInTypeOrder ==
  \A r \in RunIds :
    HasQuestions(r) =>
      /\ \A i, j \in DOMAIN runs[r].questions :
           i < j => TypeRank(runs[r].questions[i].type)
                      <= TypeRank(runs[r].questions[j].type)
      /\ runs[r].pc = "selecting_source" =>
           generated_questions = File(WriteGeneratedQuestions(runs[r].questions))

\* a list that holds records of all four types
C9_Witness ==
  \E r \in RunIds :
    /\ HasQuestions(r)
    /\ TypesOf(runs[r].questions) = Range(TypeOrder)

\* the run has got past lines 21-76
HasInput(r) ==
  /\ runs[r].program = "run_pipeline.py"
  /\ runs[r].pc \in {"normalizing", "synthesizing", "selecting_source", "rendering"}

NoInputCauses == {"pdf not found", "text not found", "no input found"}

InputSourceNow == Lower(Strip(IF env_input_source.set THEN env_input_source.value
                                                      ELSE SourceAuto))

RecordedReference == IF last_upload.exists THEN Strip(last_upload.content) ELSE <<>>

\* the recorded reference when it is not the text-only marker and the file
\* it names exists, else the default path
ClaimedPdfPath ==
  IF /\ RecordedReference # <<>>
     /\ RecordedReference # PastedTextName
     /\ RecordedReference \in Existing
    THEN RecordedReference
    ELSE SamplePdfName

\* C10 as stated: the explicit override, else the recorded reference, else
\* the default path, else the run fails with the no-input-found error.
C10_ResolutionOrderAsStated ==
  \A r \in RunIds :
    /\ HasInput(r) =>
         runs[r].input_path =
           IF InputSourceNow = SourceText THEN PastedTextName ELSE ClaimedPdfPath
    /\ (runs[r].program = "run_pipeline.py" /\ runs[r].pc = "failed"
          /\ runs[r].cause \in NoInputCauses) =>
         IF InputSourceNow = SourceText THEN ~pasted_text.exists
         ELSE ClaimedPdfPath \notin Existing

\* C10 as amended: with INPUT_SOURCE=pdf the run reads the recorded
\* reference (when it is not the marker pasted_text.txt and the file exists)
\* or else uploads/sample.pdf, and fails when that file is missing; with
\* INPUT_SOURCE=text it reads uploads/pasted_text.txt and fails when it is
\* missing; with any other value it reads that PDF when it exists, else
\* uploads/pasted_text.txt when it exists, else fails with the
\* no-input-found error.
C10_ResolutionOrder ==
  \A r \in RunIds :
    LET pdf == ClaimedPdfPath
        expected ==
          IF InputSourceNow = SourcePdf
            THEN IF pdf \in Existing THEN [path |-> pdf, cause |-> "none"]
                 ELSE [path |-> <<>>, cause |-> "pdf not found"]
          ELSE IF InputSourceNow = SourceText
            THEN IF pasted_text.exists THEN [path |-> PastedTextName, cause |-> "none"]
                 ELSE [path |-> <<>>, cause |-> "text not found"]
          ELSE IF pdf \in Existing THEN [path |-> pdf, cause |-> "none"]
          ELSE IF pasted_text.exists THEN [path |-> PastedTextName, cause |-> "none"]
          ELSE [path |-> <<>>, cause |-> "no input found"]
    IN  /\ HasInput(r) =>
             /\ expected.cause = "none"
             /\ runs[r].input_path = expected.path
             /\ runs[r].pc = "normalizing" =>
                  runs[r].raw_text =
                    IF expected.path = PastedTextName
                      THEN pasted_text.content
                      ELSE ExtractTextFromPdf(uploads[expected.path])
        /\ (runs[r].program = "run_pipeline.py" /\ runs[r].pc = "failed"
              /\ runs[r].cause \in NoInputCauses) =>
             runs[r].cause = expected.cause

\* with no INPUT_SOURCE, no usable reference and no sample.pdf, the run has
\* read uploads/pasted_text.txt
C10_Witness ==
  \E r \in RunIds :
    /\ HasInput(r)
    /\ ~env_input_source.set
    /\ ClaimedPdfPath \notin Existing
    /\ runs[r].input_path = PastedTextName

----------------------------------------------------------------------------
(* Claims about the synthesizers, checked under SpecSynth                  *)

Count(xs, x) == Cardinality({i \in DOMAIN xs : xs[i] = x})

EndsWith(s, suffix) ==
  Len(s) >= Len(suffix) /\ OccursAt(s, suffix, Len(s) - Len(suffix) + 1)

Returned(fn) == call.fn = fn /\ call.returned

C6_AnswerNotInQuestion ==
  (Returned("generate_fill") \/ Returned("generate_short_answers")) =>
    \A i \in DOMAIN call.records :
      ~Contains(Lower(call.records[i].question), Lower(call.records[i].answer))


----------------------------------------------------------------------------
(* Claims about the sentences a run hands to the synthesizers, checked     *)
(* under SpecMain                                                          *)

\* the whitespace-delimited tokens of s, counted by where they start
TokenCount(s) ==
  Cardinality({i \in DOMAIN s : ~IsSpace(s[i]) /\ (i = 1 \/ IsSpace(s[i - 1]))})

\* the run holds the list preprocess_text returned (lines 79-105)
HasSentences(r) ==
  /\ runs[r].program = "run_pipeline.py"
  /\ runs[r].pc = "synthesizing"

\* C11: every sentence that preprocess_text returns and that main passes to
\* the synthesizers has at least 5 whitespace-delimited tokens, on the
\* primary segmentation path and on the fallback split path; the file
\* cleaned_sentences.txt that save_outputs writes holds the same sentences.
C11_SentencesHaveFiveTokens ==
  \A r \in RunIds :
    HasSentences(r) =>
      /\ \A i \in DOMAIN runs[r].sentences : TokenCount(runs[r].sentences[i]) >= 5
      /\ cleaned_sentences = File(runs[r].sentences)

\* the fallback split has returned "a b c ! d e f" and rejected " g"
C11_Witness ==
  \E r \in RunIds :
    /\ HasSentences(r)
    /\ pasted_text = File(FallbackText)
    /\ runs[r].sentences =
         << <<"a"," ","b"," ","c"," ","!"," ","d"," ","e"," ","f">> >>


----------------------------------------------------------------------------
(* Claims about the question text of generate_mcq and generate_fill,       *)
(* checked under SpecSynth                                                 *)

\* q cut at every blank marker, left to right
RECURSIVE PiecesBetweenMarkers(_, _)
PiecesBetweenMarkers(q, cur) ==
  IF q = <<>> THEN <<cur>>
  ELSE IF OccursAt(q, <<"_","_","_","_","_">>, 1)
    THEN <<cur>> \o PiecesBetweenMarkers(SubSeq(q, 6, Len(q)), <<>>)
    ELSE PiecesBetweenMarkers(Tail(q), Append(cur, q[1]))

\* the pieces with the answer put back between them
RECURSIVE JoinWith(_, _)
JoinWith(pieces, answer) ==
  IF Len(pieces) = 1 THEN pieces[1]
  ELSE pieces[1] \o answer \o JoinWith(Tail(pieces), answer)

BlankCount(q) == Len(PiecesBetweenMarkers(q, <<>>)) - 1

\* C12 as stated: the question of every generate_mcq and generate_fill
\* record is the whitespace-normalized sentence with only the first
\* occurrence of the answer replaced by "_____", so it holds exactly one
\* blank marker.
C12_OnlyFirstOccurrenceReplaced ==
  (Returned("generate_mcq") \/ Returned("generate_fill")) =>
    \A i \in DOMAIN call.records :
      \E k \in DOMAIN call.sentences :
        /\ call.records[i].question =
             ReplaceFirstOnly(NormalizeSentence(call.sentences[k]),
                              call.records[i].answer, <<"_","_","_","_","_">>)
        /\ BlankCount(call.records[i].question) = 1

\* C12 as amended: the question of every generate_mcq and generate_fill
\* record is the whitespace-normalized sentence with every occurrence of the
\* answer (exact case, not overlapping, taken left to right) replaced by
\* "_____": putting the answer back at every blank gives the sentence, each
\* blank stands at the leftmost place the answer occurred, no occurrence of
\* the answer is left after the last blank, and a generate_fill question
\* holds at least one blank.
C12_EveryOccurrenceReplaced ==
  (Returned("generate_mcq") \/ Returned("generate_fill")) =>
    \A i \in DOMAIN call.records :
      \E k \in DOMAIN call.sentences :
        LET answer == call.records[i].answer
            pieces == PiecesBetweenMarkers(call.records[i].question, <<>>)
            n      == Len(pieces)
        IN  /\ JoinWith(pieces, answer) = NormalizeSentence(call.sentences[k])
            /\ \A j \in 1..(n - 1) :
                 \A pos \in 1..Len(pieces[j]) :
                   ~OccursAt(pieces[j] \o answer, answer, pos)
            /\ ~Contains(pieces[n], answer)
            /\ call.fn = "generate_fill" => n >= 2

\* a returned question in which the answer occurred twice and both
\* occurrences are blanks
C12_Witness ==
  /\ Returned("generate_mcq") \/ Returned("generate_fill")
  /\ \E i \in DOMAIN call.records :
       /\ BlankCount(call.records[i].question) = 2
       /\ ~Contains(call.records[i].question, call.records[i].answer)

====
